---------------------------- MODULE Spec2Model ----------------------------
(***************************************************************************)
(* The posts API of posts/api.py: five Flask routes over one table of      *)
(* posts reached through a process-wide SQLAlchemy session.                *)
(*                                                                         *)
(* A request is served in one step (the whole view function, decorators    *)
(* and commit included); the step leaves the request and its response in   *)
(* req and resp.  Deliver hands the response to the client and pops the    *)
(* request context, after which the next request can be dispatched.        *)
(***************************************************************************)
EXTENDS Integers, Sequences, FiniteSets, TLC

VARIABLES
    table,      \* the committed rows of the posts table: a set of [id, title, body]
    nextId,     \* the next value of the table's id sequence
    pending,    \* the shared session's changes that are not yet committed
    req,        \* the request that is being answered, NoReq when there is none
    resp,       \* the response to req, NoResp when there is none
    issued,     \* history: the ids returned by the 201 creates, oldest first
    deleted,    \* history: the ids whose delete was answered 200
    created     \* history: the posts returned by the 201 creates whose id no
                \* update or delete has been answered with success since

vars == <<table, nextId, pending, req, resp, issued, deleted, created>>

history == <<issued, deleted, created>>

store == <<table, nextId, pending>>

(***************************************************************************)
(* Bounds and test data.                                                   *)
(***************************************************************************)
\* the id sequence stops handing out ids after MaxId
MaxId == 2

\* the strings a payload carries as title or body (sequences of characters)
Strings == {<<"a">>, <<"_">>}

\* the strings given as title_like or body_like
LikeArgs == {<<>>, <<"a">>, <<"_">>, <<"%">>}

\* the ids a route is asked for
ReqIds == 1..MaxId

JSON == "application/json"

XML == "application/xml"

\* Accept headers, as the set of media types they list
AcceptHeaders == {{JSON}, {XML}, {XML, JSON}}

ContentTypes == {JSON, XML}

(***************************************************************************)
(* JSON values of a payload.                                               *)
(***************************************************************************)
Absent == [type |-> "absent", str |-> <<>>]

\* the number 32, written as its JSON text
Number32 == [type |-> "number", str |-> <<"3", "2">>]

Str(s) == [type |-> "string", str |-> s]

FieldValues == {Absent, Number32} \cup {Str(s) : s \in Strings}

Object(t, b) == [type |-> "object", title |-> t, body |-> b]

NonObject(ty) == [type |-> ty, title |-> Absent, body |-> Absent]

NoPayload == NonObject("none")

Payloads ==
    {Object(t, b) : t \in FieldValues, b \in FieldValues}
        \cup {NonObject(ty) : ty \in {"array", "string", "number", "null"}}

(***************************************************************************)
(* Requests and responses.                                                 *)
(***************************************************************************)
NotGiven == [given |-> FALSE, str |-> <<>>]

Given(s) == [given |-> TRUE, str |-> s]

QueryArgs == {NotGiven} \cup {Given(s) : s \in LikeArgs}

Request(route, accept, ctype, id, payload, tl, bl) ==
    [route |-> route, accept |-> accept, ctype |-> ctype, id |-> id,
     payload |-> payload, title_like |-> tl, body_like |-> bl]

NoReq == Request("none", {}, "", 0, NoPayload, NotGiven, NotGiven)

Response(status, kind, message, posts, location) ==
    [status |-> status, kind |-> kind, message |-> message, posts |-> posts,
     location |-> location]

NoResp == Response(0, "none", "", <<>>, "")

\* json.dumps({"message": message}) with the given status
MessageResponse(status, message) == Response(status, "message", message, <<>>, "")

\* an exception that leaves the view function: Flask answers 500 with its
\* own HTML error page
InternalServerError == Response(500, "html", "", <<>>, "")

(***************************************************************************)
(* The posts table and the session (models.Post, database.session).        *)
(***************************************************************************)
Post(id, title, body) == [id |-> id, title |-> title, body |-> body]

\* Post.as_dictionary(): the id, the title and the body of the row
as_dictionary(post) == Post(post.id, post.title, post.body)

\* the changes a session holds until they are flushed
AddOp(title, body) == [op |-> "add", id |-> 0, title |-> title, body |-> body]

UpdateOp(id, title, body) == [op |-> "update", id |-> id, title |-> title, body |-> body]

DeleteOp(id) == [op |-> "delete", id |-> id, title |-> <<>>, body |-> <<>>]

\* One change written to the table.  An added row takes the next value of
\* the id sequence, which is never handed out again.
ApplyOp(o, db) ==
    IF o.op = "add"
    THEN [table |-> db.table \cup {Post(db.nextId, o.title, o.body)},
          nextId |-> db.nextId + 1, last |-> db.nextId]
    ELSE IF o.op = "update"
    THEN [db EXCEPT !.table = {p \in db.table : p.id # o.id}
                        \cup {Post(p.id, o.title, o.body) : p \in {q \in db.table : q.id = o.id}}]
    ELSE [db EXCEPT !.table = {p \in db.table : p.id # o.id}]

RECURSIVE Flush(_, _)
\* the changes ops written to the table in the order they were made
Flush(ops, db) ==
    IF ops = <<>> THEN db ELSE Flush(Tail(ops), ApplyOp(Head(ops), db))

\* the table as a query of the session sees it (a query flushes first)
Visible(ops) == Flush(ops, [table |-> table, nextId |-> nextId, last |-> 0])

\* session.query(models.Post).get(id): the rows with that id, {} for None
Get(ops, id) == {p \in Visible(ops).table : p.id = id}

\* session.commit() of the changes ops: they reach the table and the
\* session holds nothing
Commit(ops) ==
    /\ table' = Visible(ops).table
    /\ nextId' = Visible(ops).nextId
    /\ pending' = <<>>

RECURSIVE order_by_id(_)
\* order_by(models.Post.id): the rows by ascending id
order_by_id(rows) ==
    IF rows = {} THEN <<>>
    ELSE LET first == CHOOSE p \in rows : \A q \in rows : p.id <= q.id
         IN  <<first>> \o order_by_id(rows \ {first})

RECURSIVE LikeMatch(_, _)
\* SQL's s LIKE pattern: % stands for any run of characters, _ for any one
LikeMatch(s, pattern) ==
    IF pattern = <<>> THEN s = <<>>
    ELSE IF Head(pattern) = "%"
    THEN LikeMatch(s, Tail(pattern)) \/ (s # <<>> /\ LikeMatch(Tail(s), pattern))
    ELSE /\ s # <<>>
         /\ Head(pattern) = "_" \/ Head(pattern) = Head(s)
         /\ LikeMatch(Tail(s), Tail(pattern))

\* Column.contains(other): column LIKE '%' || other || '%', other unescaped
contains(column, other) == LikeMatch(column, <<"%">> \o other \o <<"%">>)

\* Python's truth value of request.args.get(name)
Truthy(arg) == arg.given /\ arg.str # <<>>

(***************************************************************************)
(* Schema validation (post_schema, jsonschema.validate).                   *)
(***************************************************************************)
RECURSIVE Text(_)
\* a sequence of characters as one string
Text(s) == IF s = <<>> THEN "" ELSE Head(s) \o Text(Tail(s))

\* the messages of the violations of post_schema by data.  The schema names
\* no type for the payload itself, so properties and required bind objects
\* only and every other JSON value is valid.
ValidationErrors(data) ==
    IF data.type # "object" THEN {}
    ELSE {Text(v.str) \o " is not of type 'string'" :
              v \in {w \in {data.title, data.body} : w.type \notin {"absent", "string"}}}
         \cup (IF data.title.type = "absent" THEN {"'title' is a required property"} ELSE {})
         \cup (IF data.body.type = "absent" THEN {"'body' is a required property"} ELSE {})

\* url_for("post_get", id=id)
url_for_post_get(id) == "/api/posts/" \o ToString(id)

(***************************************************************************)
(* The decorators and the five view functions.                             *)
(***************************************************************************)
\* a response that touches neither the table nor the session
Answer(response) ==
    /\ resp' = response
    /\ UNCHANGED <<store, history>>

\* decorators.accept(mimetype) around view: 406 unless the Accept header
\* lists mimetype
accept(mimetype, r, view) ==
    IF mimetype \in r.accept
    THEN view
    ELSE Answer(MessageResponse(406, "Request must accept " \o mimetype \o " data"))

\* decorators.require(mimetype) around view: 415 unless the Content-Type
\* is mimetype
require(mimetype, r, view) ==
    IF r.ctype = mimetype
    THEN view
    ELSE Answer(MessageResponse(415, "Request must contain " \o mimetype \o " data"))

\* the body of posts_get
posts_get_view(r) ==
    LET posts == Visible(pending).table
        by_title == IF Truthy(r.title_like)
                    THEN {p \in posts : contains(p.title, r.title_like.str)}
                    ELSE posts
        by_body == IF Truthy(r.body_like)
                   THEN {p \in by_title : contains(p.body, r.body_like.str)}
                   ELSE by_title
        ordered == order_by_id(by_body)
    IN  Answer(Response(200, "array", "",
                        [i \in 1..Len(ordered) |-> as_dictionary(ordered[i])], ""))

\* GET /api/posts
posts_get(r) == accept(JSON, r, posts_get_view(r))

\* post_get without its check for a missing post: as_dictionary of None raises
post_get_view_unchecked(r) ==
    LET post == Get(pending, r.id)
    IN  IF post = {}
        THEN Answer(InternalServerError)
        ELSE Answer(Response(200, "object", "",
                             <<as_dictionary(CHOOSE p \in post : TRUE)>>, ""))

\* the body of post_get
post_get_view(r) ==
    LET post == Get(pending, r.id)
    IN  IF post = {}
        THEN Answer(MessageResponse(404, "Could not find post with id " \o ToString(r.id)))
        ELSE Answer(Response(200, "object", "",
                             <<as_dictionary(CHOOSE p \in post : TRUE)>>, ""))

\* GET /api/posts/<id>
post_get(r) == accept(JSON, r, post_get_view(r))

\* delete_post without session.delete: the message is sent, the row stays
delete_post_view_keeps_row(r) ==
    LET returned_post == Get(pending, r.id)
    IN  IF returned_post = {}
        THEN Answer(MessageResponse(404, "Could not find post with id " \o ToString(r.id)))
        ELSE /\ Commit(pending)
             /\ resp' = MessageResponse(200, "Post has been deleted!")
             /\ deleted' = deleted \cup {r.id}
             /\ created' = {p \in created : p.id # r.id}
             /\ UNCHANGED issued

\* the body of delete_post
delete_post_view(r) ==
    LET returned_post == Get(pending, r.id)
    IN  IF returned_post = {}
        THEN Answer(MessageResponse(404, "Could not find post with id " \o ToString(r.id)))
        ELSE /\ Commit(Append(pending, DeleteOp(r.id)))
             /\ resp' = MessageResponse(200, "Post has been deleted!")
             /\ deleted' = deleted \cup {r.id}
             /\ created' = {p \in created : p.id # r.id}
             /\ UNCHANGED issued

\* POST /api/posts/<id>/delete
delete_post(r) == accept(JSON, r, delete_post_view(r))

\* posts_post numbering the new post by the count of stored posts
posts_post_view_counted_id(r) ==
    LET data == r.payload
        errors == ValidationErrors(data)
    IN  IF errors # {}
        THEN \E message \in errors : Answer(MessageResponse(422, message))
        ELSE IF data.type # "object"
        THEN Answer(InternalServerError)
        ELSE LET post == Post(Cardinality(table) + 1, data.title.str, data.body.str)
             IN  /\ nextId <= MaxId
                 /\ table' = table \cup {post}
                 /\ nextId' = nextId + 1
                 /\ pending' = <<>>
                 /\ resp' = Response(201, "object", "", <<as_dictionary(post)>>,
                                     url_for_post_get(post.id))
                 /\ issued' = Append(issued, post.id)
                 /\ created' = created \cup {as_dictionary(post)}
                 /\ UNCHANGED deleted

\* posts_post building the post with title and body exchanged
posts_post_view_exchanged(r) ==
    LET data == r.payload
        errors == ValidationErrors(data)
    IN  IF errors # {}
        THEN \E message \in errors : Answer(MessageResponse(422, message))
        ELSE IF data.type # "object"
        THEN Answer(InternalServerError)
        ELSE LET ops == Append(pending, AddOp(data.body.str, data.title.str))
                 id == Visible(ops).last
                 post == CHOOSE p \in Get(ops, id) : TRUE
             IN  /\ nextId <= MaxId
                 /\ Commit(ops)
                 /\ resp' = Response(201, "object", "", <<as_dictionary(post)>>,
                                     url_for_post_get(post.id))
                 /\ issued' = Append(issued, post.id)
                 /\ created' = created \cup {as_dictionary(post)}
                 /\ UNCHANGED deleted

\* the body of posts_post
posts_post_view(r) ==
    LET data == r.payload
        errors == ValidationErrors(data)
    IN  IF errors # {}
        THEN \E message \in errors : Answer(MessageResponse(422, message))
        ELSE IF data.type # "object"
        THEN Answer(InternalServerError)      \* data["title"] raises TypeError
        ELSE LET ops == Append(pending, AddOp(data.title.str, data.body.str))
                 id == Visible(ops).last
                 post == CHOOSE p \in Get(ops, id) : TRUE
             IN  /\ nextId <= MaxId
                 /\ Commit(ops)
                 /\ resp' = Response(201, "object", "", <<as_dictionary(post)>>,
                                     url_for_post_get(post.id))
                 /\ issued' = Append(issued, post.id)
                 /\ created' = created \cup {as_dictionary(post)}
                 /\ UNCHANGED deleted

\* the view function under decorators.require
posts_post_required(r) == require(JSON, r, posts_post_view(r))

\* posts_post with its two decorators in the other order
posts_post_require_first(r) ==
    require(JSON, r, accept(JSON, r, posts_post_view(r)))

\* POST /api/posts
posts_post(r) == accept(JSON, r, posts_post_required(r))

\* posts_put assigning the title and leaving the body
posts_put_view_title_only(r) ==
    LET data == r.payload
        errors == ValidationErrors(data)
    IN  IF errors # {}
        THEN \E message \in errors : Answer(MessageResponse(422, message))
        ELSE IF data.type # "object"
        THEN Answer(InternalServerError)
        ELSE LET title == data.title.str
                 post == Get(pending, r.id)
             IN  IF post = {}
                 THEN Answer(InternalServerError)
                 ELSE LET ops == Append(pending,
                                        UpdateOp(r.id, title, (CHOOSE p \in post : TRUE).body))
                          edited == CHOOSE p \in Get(ops, r.id) : TRUE
                      IN  /\ Commit(ops)
                          /\ resp' = Response(201, "object", "", <<as_dictionary(edited)>>,
                                              url_for_post_get(edited.id))
                          /\ created' = {p \in created : p.id # r.id}
                          /\ UNCHANGED <<issued, deleted>>

\* posts_put adding the post when none has the id
posts_put_view_upsert(r) ==
    LET data == r.payload
        errors == ValidationErrors(data)
    IN  IF errors # {}
        THEN \E message \in errors : Answer(MessageResponse(422, message))
        ELSE IF data.type # "object"
        THEN Answer(InternalServerError)
        ELSE LET title == data.title.str
                 body == data.body.str
                 edited == Post(r.id, title, body)
             IN  /\ table' = {p \in table : p.id # r.id} \cup {edited}
                 /\ pending' = <<>>
                 /\ UNCHANGED nextId
                 /\ resp' = Response(201, "object", "", <<as_dictionary(edited)>>,
                                     url_for_post_get(edited.id))
                 /\ created' = {p \in created : p.id # r.id}
                 /\ UNCHANGED <<issued, deleted>>

\* the body of posts_put
posts_put_view(r) ==
    LET data == r.payload
        errors == ValidationErrors(data)
    IN  IF errors # {}
        THEN \E message \in errors : Answer(MessageResponse(422, message))
        ELSE IF data.type # "object"
        THEN Answer(InternalServerError)      \* data["title"] raises TypeError
        ELSE LET title == data.title.str
                 body == data.body.str
                 post == Get(pending, r.id)
             IN  IF post = {}
                 THEN Answer(InternalServerError)   \* None.title = ... raises AttributeError
                 ELSE LET ops == Append(pending, UpdateOp(r.id, title, body))
                          edited == CHOOSE p \in Get(ops, r.id) : TRUE
                      IN  /\ Commit(ops)
                          /\ resp' = Response(201, "object", "", <<as_dictionary(edited)>>,
                                              url_for_post_get(edited.id))
                          /\ created' = {p \in created : p.id # r.id}
                          /\ UNCHANGED <<issued, deleted>>

\* the view function under decorators.require
posts_put_required(r) == require(JSON, r, posts_put_view(r))

\* PUT /api/posts/<id>
posts_put(r) == accept(JSON, r, posts_put_required(r))

(***************************************************************************)
(* The requests a client sends, and the routing of one of them.            *)
(***************************************************************************)
PostsGetRequests ==
    {Request("posts_get", a, "", 0, NoPayload, tl, bl) :
        a \in AcceptHeaders, tl \in QueryArgs, bl \in QueryArgs}

PostGetRequests ==
    {Request("post_get", a, "", id, NoPayload, NotGiven, NotGiven) :
        a \in AcceptHeaders, id \in ReqIds}

DeletePostRequests ==
    {Request("delete_post", a, "", id, NoPayload, NotGiven, NotGiven) :
        a \in AcceptHeaders, id \in ReqIds}

PostsPostRequests ==
    {Request("posts_post", a, c, 0, d, NotGiven, NotGiven) :
        a \in AcceptHeaders, c \in ContentTypes, d \in Payloads}

PostsPutRequests ==
    {Request("posts_put", a, c, id, d, NotGiven, NotGiven) :
        a \in AcceptHeaders, c \in ContentTypes, id \in ReqIds, d \in Payloads}

\* app.route: the request context of r is pushed
Dispatch(r) == req' = r

Init ==
    /\ table = {}
    /\ nextId = 1
    /\ pending = <<>>
    /\ req = NoReq
    /\ resp = NoResp
    /\ issued = <<>>
    /\ deleted = {}
    /\ created = {}

PostsGet ==
    /\ req = NoReq
    /\ \E r \in PostsGetRequests : Dispatch(r) /\ posts_get(r)

PostGet ==
    /\ req = NoReq
    /\ \E r \in PostGetRequests : Dispatch(r) /\ post_get(r)

DeletePost ==
    /\ req = NoReq
    /\ \E r \in DeletePostRequests : Dispatch(r) /\ delete_post(r)

PostsPost ==
    /\ req = NoReq
    /\ \E r \in PostsPostRequests : Dispatch(r) /\ posts_post(r)

PostsPut ==
    /\ req = NoReq
    /\ \E r \in PostsPutRequests : Dispatch(r) /\ posts_put(r)

\* the response leaves and the request context is popped
Deliver ==
    /\ req # NoReq
    /\ req' = NoReq
    /\ resp' = NoResp
    /\ UNCHANGED <<store, history>>

Next ==
    \/ PostsGet
    \/ PostGet
    \/ DeletePost
    \/ PostsPost
    \/ PostsPut
    \/ Deliver

Spec == Init /\ [][Next]_vars

(***************************************************************************)
(* Vocabulary of the properties.                                           *)
(***************************************************************************)
\* the step that serves a request: the only step that writes req and resp
Served == req = NoReq /\ req' # NoReq

\* the Accept header of r includes application/json
Acceptable(r) == JSON \in r.accept

\* the Content-Type of r is application/json
JsonContent(r) == r.ctype = JSON

\* d is an object holding a string title and a string body
ValidPayload(d) ==
    d.type = "object" /\ d.title.type = "string" /\ d.body.type = "string"

Ids(rows) == {p.id : p \in rows}

\* sub occurs in s as a run of consecutive characters
IsSubstring(sub, s) ==
    \E i \in 0..(Len(s) - Len(sub)) : SubSeq(s, i + 1, i + Len(sub)) = sub

\* the path of GET /api/posts/<id>
PostPath(id) == "/api/posts/" \o ToString(id)

\* the response carries exactly the post p
Carries(response, p) == response.kind = "object" /\ response.posts = <<p>>

(***************************************************************************)
(* C1: the ids returned by successful creates are strictly increasing, so  *)
(* pairwise distinct and never one that an earlier create returned, also   *)
(* after deletes; no two stored posts share an id.                         *)
(***************************************************************************)
C1_IdsStrictlyIncreasing ==
    /\ \A i, j \in 1..Len(issued) : i < j => issued[i] < issued[j]
    /\ \A p, q \in table : p.id = q.id => p = q
    /\ (req.route = "posts_post" /\ resp.status = 201) =>
           /\ Len(resp.posts) = 1
           /\ resp.posts[1].id = issued[Len(issued)]
           /\ resp.posts[1] \in table

\* a create answered after the post of the first create was deleted
C1_Witness ==
    /\ req.route = "posts_post" /\ resp.status = 201
    /\ Len(issued) = 2
    /\ issued[1] \in deleted

(***************************************************************************)
(* C2: a create answered 201 with id i adds exactly one post, (i, t, b) of *)
(* its payload, and names the path of GET /api/posts/i in Location; a GET  *)
(* of i served while no update or delete of i has succeeded since is       *)
(* answered 200 with (i, t, b).                                            *)
(***************************************************************************)
C2_CreateThenGet ==
    [][Served =>
        /\ (req'.route = "posts_post" /\ resp'.status = 201) =>
              \E i \in 1..MaxId + 1 :
                 LET p == Post(i, req'.payload.title.str, req'.payload.body.str)
                 IN  /\ Acceptable(req') /\ JsonContent(req') /\ ValidPayload(req'.payload)
                     /\ Carries(resp', p)
                     /\ resp'.location = PostPath(i)
                     /\ p \notin table
                     /\ table' = table \cup {p}
                     /\ Cardinality(table') = Cardinality(table) + 1
                     /\ p \in created'
        /\ (req'.route = "post_get" /\ Acceptable(req')) =>
              \A p \in created : p.id = req'.id => resp'.status = 200 /\ Carries(resp', p)
      ]_vars

\* a GET of a created post, answered while another post is stored as well
C2_Witness ==
    /\ req.route = "post_get" /\ resp.status = 200
    /\ \E p \in created : p.id = req.id /\ Carries(resp, p)
    /\ Cardinality(table) = 2

(***************************************************************************)
(* C3: GET /api/posts with an acceptable Accept header is answered 200     *)
(* with exactly the stored posts whose title contains title_like and whose *)
(* body contains body_like (each when given), once each, by ascending id.  *)
(***************************************************************************)
C3_ListIsSubstringFilter ==
    (req.route = "posts_get" /\ Acceptable(req)) =>
        /\ resp.status = 200
        /\ resp.kind = "array"
        /\ \A i, j \in 1..Len(resp.posts) : i < j => resp.posts[i].id < resp.posts[j].id
        /\ {resp.posts[i] : i \in 1..Len(resp.posts)} =
               {p \in table :
                   /\ req.title_like.given => IsSubstring(req.title_like.str, p.title)
                   /\ req.body_like.given => IsSubstring(req.body_like.str, p.body)}

(***************************************************************************)
(* C4: a delete of a stored id with an acceptable Accept header is         *)
(* answered 200 with "Post has been deleted!" and removes that post only;  *)
(* from then on no list result holds a post of that id and every GET of it *)
(* is answered 404, whatever was served in between.                        *)
(***************************************************************************)
C4_DeleteRemovesForGood ==
    [][Served =>
        /\ (req'.route = "delete_post" /\ Acceptable(req') /\ req'.id \in Ids(table)) =>
              /\ resp' = MessageResponse(200, "Post has been deleted!")
              /\ table' = {p \in table : p.id # req'.id}
              /\ req'.id \in deleted'
        /\ (req'.route = "post_get" /\ Acceptable(req') /\ req'.id \in deleted) =>
              resp'.status = 404
        /\ (req'.route = "posts_get" /\ Acceptable(req')) =>
              \A i \in 1..Len(resp'.posts) : resp'.posts[i].id \notin deleted
        /\ Ids(table') \cap deleted' = {}
      ]_vars

\* a GET of a deleted id, answered after a later create
C4_Witness ==
    /\ req.route = "post_get" /\ Acceptable(req) /\ resp.status = 404
    /\ req.id \in deleted
    /\ \E p \in table : p.id > req.id

(***************************************************************************)
(* C5: a PUT of a stored id with acceptable headers and a payload of two   *)
(* strings t, b is answered 201 with the post (id, t, b) and the Location  *)
(* /api/posts/id; the stored ids are the same, the post of that id is      *)
(* (id, t, b) and every other post is as it was.                           *)
(***************************************************************************)
C5_PutEditsOnePost ==
    [][(/\ Served
        /\ req'.route = "posts_put"
        /\ Acceptable(req') /\ JsonContent(req') /\ ValidPayload(req'.payload)
        /\ req'.id \in Ids(table)) =>
           LET p == Post(req'.id, req'.payload.title.str, req'.payload.body.str)
           IN  /\ resp'.status = 201
               /\ Carries(resp', p)
               /\ resp'.location = PostPath(req'.id)
               /\ Ids(table') = Ids(table)
               /\ table' = {q \in table : q.id # req'.id} \cup {p}
               /\ Cardinality(table') = Cardinality(table)
      ]_vars

\* an edit that changed one of two stored posts
C5_Witness ==
    /\ req.route = "posts_put" /\ resp.status = 201
    /\ Cardinality(table) = 2
    /\ \E p \in table : p.id = req.id /\ p \notin created
    /\ \E p \in table : p.id # req.id /\ p \in created

(***************************************************************************)
(* C6: GET /api/posts/id and POST /api/posts/id/delete of an id that is    *)
(* not stored, with an acceptable Accept header, are answered 404 with     *)
(* "Could not find post with id <id>" and leave the store as it was.       *)
(***************************************************************************)
C6_MissingIdIs404 ==
    [][(/\ Served
        /\ req'.route \in {"post_get", "delete_post"}
        /\ Acceptable(req')
        /\ req'.id \notin Ids(table)) =>
           /\ resp' = MessageResponse(404, "Could not find post with id " \o ToString(req'.id))
           /\ UNCHANGED store
      ]_vars

\* a delete of an id that is not stored while another post is
C6_Witness ==
    /\ req.route = "delete_post" /\ Acceptable(req) /\ resp.status = 404
    /\ req.id \notin Ids(table)
    /\ table # {}

(***************************************************************************)
(* C7: POST /api/posts and PUT /api/posts/id with acceptable headers and a *)
(* JSON payload that is not an object holding a string title and a string  *)
(* body are answered 422 with a message and leave the store as it was.     *)
(***************************************************************************)
C7_InvalidPayloadIs422 ==
    [][(/\ Served
        /\ req'.route \in {"posts_post", "posts_put"}
        /\ Acceptable(req') /\ JsonContent(req')
        /\ ~ValidPayload(req'.payload)) =>
           /\ resp'.status = 422
           /\ resp'.kind = "message" /\ resp'.message # ""
           /\ UNCHANGED store
      ]_vars

(***************************************************************************)
(* C8: the checks run in the order Accept, Content-Type, payload: without  *)
(* application/json in Accept every route answers 406; POST /api/posts and *)
(* PUT /api/posts/id that pass it without a Content-Type of                *)
(* application/json answer 415; 422 is answered only after both; a 406 or  *)
(* a 415 leaves the store as it was.                                       *)
(***************************************************************************)
C8_ChecksInOrder ==
    [][Served =>
        /\ ~Acceptable(req') => (resp'.status = 406 /\ UNCHANGED store)
        /\ (/\ Acceptable(req')
            /\ req'.route \in {"posts_post", "posts_put"}
            /\ ~JsonContent(req')) => (resp'.status = 415 /\ UNCHANGED store)
        /\ resp'.status = 406 => ~Acceptable(req')
        /\ resp'.status = 415 => (Acceptable(req') /\ ~JsonContent(req'))
        /\ resp'.status = 422 => (Acceptable(req') /\ JsonContent(req'))
      ]_vars

\* a PUT that fails all three checks at once, on a store that holds its id
C8_Witness ==
    /\ req.route = "posts_put" /\ resp.status = 406
    /\ ~JsonContent(req) /\ ~ValidPayload(req.payload)
    /\ req.id \in Ids(table)

(***************************************************************************)
(* C9: every request ends in 200 or 201, or in 404, 406, 415 or 422 with a *)
(* JSON object of one message string.                                      *)
(***************************************************************************)
C9_DocumentedOutcomesOnly ==
    resp # NoResp =>
        \/ resp.status \in {200, 201}
        \/ resp.status \in {404, 406, 415, 422} /\ resp.kind = "message"

(***************************************************************************)
(* C10: the store changes only in a POST /api/posts answered 201 (one post *)
(* added), a PUT answered 201 (the title and body of that post) and a      *)
(* delete answered 200 (that post removed); both GET routes, every error   *)
(* response and a PUT of an id that is not stored leave the table, the id  *)
(* sequence and the session's pending changes as they were.                *)
(***************************************************************************)
C10_StoreChangesOnlyOnSuccess ==
    [][Served =>
        /\ (store' # store) =>
              \/ /\ req'.route = "posts_post" /\ resp'.status = 201
                 /\ \E p \in table' \ table : table' = table \cup {p}
              \/ /\ req'.route = "posts_put" /\ resp'.status = 201
                 /\ \E p \in table, q \in table' :
                       /\ p.id = req'.id /\ q.id = req'.id
                       /\ table' = (table \ {p}) \cup {q}
              \/ /\ req'.route = "delete_post" /\ resp'.status = 200
                 /\ \E p \in table : p.id = req'.id /\ table' = table \ {p}
        /\ (\/ req'.route \in {"posts_get", "post_get"}
            \/ resp'.status \notin {200, 201}
            \/ req'.route = "posts_put" /\ req'.id \notin Ids(table)) => UNCHANGED store
        /\ pending' = pending
      ]_vars

\* a PUT of two strings for an id that is not stored, while another post is
C10_Witness ==
    /\ req.route = "posts_put" /\ Acceptable(req) /\ JsonContent(req)
    /\ ValidPayload(req.payload)
    /\ req.id \notin Ids(table)
    /\ resp # NoResp
    /\ Cardinality(table) = 1

====
